---- MODULE Spec2Model ----
(***************************************************************************)
(* The EBS volume conversion pipeline: three Lambda handlers               *)
(*   1_FilterVolumesLambda    (Selector)                                   *)
(*   2_ModifyVolumesLambda    (Converter)                                  *)
(*   3_VerifyAndNotifyLambda  (Verifier/Notifier)                          *)
(* over an externally owned fleet of volumes, a DynamoDB audit table and   *)
(* an SNS topic.  Every external call of a handler is one step.            *)
(***************************************************************************)
EXTENDS Integers, Sequences, FiniteSets, TLC

VARIABLES
    fleet,      \* the EC2 inventory: volume id -> descriptor
    keySchema,  \* primary-key attributes of table VolumeConversionLogs
    clock,      \* datetime.utcnow(), as a logical time
    spc,        \* Selector: position of the handler
    soutput,    \* Selector: the returned list
    squery,     \* Selector: the describe_volumes call of this invocation
    sprev,      \* Selector: what the invocation before this one returned
    cpc,        \* Converter: position of the handler
    cevent,     \* Converter: the event (a list of records)
    cidx,       \* Converter: index of the record the for loop is at
    requests,   \* every modify_volume call issued, in order, with the
                \* answer and what the volume was when the call was made
    cresult,    \* Converter: the returned dict
    vpc,        \* Verifier, per run: position of the handler
    vinput,     \* Verifier, per run: the event as the caller handed it over
    vevent,     \* Verifier, per run: the event after lines 15-18
    vidx,       \* Verifier, per run: index of the item the for loop is at
    vlog,       \* Verifier, per run: the local `log` built at lines 32-40
    outcome,    \* Verifier, per run: terminal state of each processed item
    vcalls,     \* Verifier, per run: every external call issued, in order
    vresult,    \* Verifier, per run: the returned dict
    store,      \* the items of table VolumeConversionLogs
    topic       \* the messages published to the SNS topic, in order

vars == <<fleet, keySchema, clock, spc, soutput, squery, sprev, cpc, cevent, cidx, requests,
          cresult, vpc, vinput, vevent, vidx, vlog, outcome, vcalls, vresult, store,
          topic>>

selVars  == <<spc, soutput, squery, sprev>>
convVars == <<cpc, cevent, cidx, requests, cresult>>
verVars  == <<vpc, vinput, vevent, vidx, vlog, outcome, vcalls, vresult, store, topic,
              clock>>

----------------------------------------------------------------------------
(* Bounds of the model *)

MaxLen == 2        \* longest event list handed to a handler directly

----------------------------------------------------------------------------
(* The fleet *)

Volumes == {"vA", "vB", "vC"}
NoValue == "None"

AvailabilityZone(v) == IF v = "vC" THEN "ap-south-1b" ELSE "ap-south-1a"
Size(v) == IF v = "vA" THEN 8 ELSE 100

\* the instances a volume is attached to, in the order the inventory lists them
Attachments(v) ==
    CASE v = "vA" -> <<>>
      [] v = "vB" -> <<[InstanceId |-> "i1"]>>
      [] OTHER    -> <<[InstanceId |-> "i2"], [InstanceId |-> "i1"]>>

\* lifecycle state reported for a volume
State(v) == IF Attachments(v) = <<>> THEN "available" ELSE "in-use"

\* what varies of a volume: its AutoConvert tag, its tier, a tier change under way
VolumeDescriptors ==
    [tag : {"true", "false"}, VolumeType : {"gp2", "gp3"}, modifying : BOOLEAN]

\* the fleet management plane finishes a tier change it accepted earlier
ModificationCompletes(v) ==
    /\ fleet[v].modifying
    /\ fleet' = [fleet EXCEPT ![v].modifying = FALSE, ![v].VolumeType = "gp3"]
    /\ UNCHANGED <<keySchema, selVars, convVars, verVars>>

\* another actor of the account starts a tier change of a gp2 volume
ExternalModify(v) ==
    /\ fleet[v].VolumeType = "gp2"
    /\ ~fleet[v].modifying
    /\ fleet' = [fleet EXCEPT ![v].modifying = TRUE]
    /\ UNCHANGED <<keySchema, selVars, convVars, verVars>>

----------------------------------------------------------------------------
(* Sequences *)

SeqsUpTo(S, n) == UNION {[1..k -> S] : k \in 0..n}

Range(s) == {s[i] : i \in 1..Len(s)}

\* the orders in which the elements of a finite set can be listed
Orderings(S) ==
    {s \in [1..Cardinality(S) -> S] : \A x \in S : \E i \in DOMAIN s : s[i] = x}

----------------------------------------------------------------------------
(* The inventory service, ec2.describe_volumes *)

\* one entry of the 'Volumes' list of a response
Descriptor(f, v) ==
    [VolumeId |-> v, AvailabilityZone |-> AvailabilityZone(v),
     VolumeType |-> f[v].VolumeType, Size |-> Size(v), State |-> State(v),
     Attachments |-> Attachments(v)]

\* MatchesFilters with the volume-type filter left out
MatchesFilters_tagOnly(d) == d.tag = "true"

\* Filters=[tag:AutoConvert in ['true'], volume-type in ['gp2']], ANDed
MatchesFilters(d) == d.tag = "true" /\ d.VolumeType = "gp2"

\* describe_volumes_filtered when only a first page of one volume is read
describe_volumes_filtered_firstPage(f) ==
    {[i \in {j \in DOMAIN o : j <= 1} |-> Descriptor(f, o[i])] :
        o \in Orderings({v \in Volumes : MatchesFilters(f[v])})}

\* describe_volumes(Filters=...): the 'Volumes' lists the service may answer
\* with, the matching volumes in any order
describe_volumes_filtered(f) ==
    {[i \in DOMAIN o |-> Descriptor(f, o[i])] :
        o \in Orderings({v \in Volumes : MatchesFilters(f[v])})}

----------------------------------------------------------------------------
(* 1_FilterVolumesLambda: the Selector *)

\* the record appended for one volume of the response (lines 14-17)
VolumeRecord(d) ==
    [VolumeId |-> d.VolumeId, AvailabilityZone |-> d.AvailabilityZone]

\* lines 12-18: one record per volume of the response, in response order
SelectorOutput(resp) == [i \in 1..Len(resp) |-> VolumeRecord(resp[i])]

\* the describe_volumes call as recorded: whether it returned, and the
\* volumes that were tagged AutoConvert = true and gp2 when it was made
Queried(f, ok) ==
    [made |-> TRUE, ok |-> ok,
     selectable |-> {v \in Volumes :
                        f[v].tag = "true" /\ f[v].VolumeType = "gp2"}]
NotQueried == [made |-> FALSE]

\* lines 5-18, the query answers: the handler returns the records
SelectorReturns ==
    /\ spc = "idle"
    /\ \E resp \in describe_volumes_filtered(fleet) :
           soutput' = SelectorOutput(resp)
    /\ squery' = Queried(fleet, TRUE)
    /\ spc' = "returned"
    /\ UNCHANGED <<sprev, fleet, keySchema, convVars, verVars>>

\* SelectorRaises with the query in a try that returns the list built so far
SelectorRaises_swallow ==
    /\ spc = "idle"
    /\ squery' = Queried(fleet, FALSE)
    /\ soutput' = <<>>
    /\ spc' = "returned"
    /\ UNCHANGED <<sprev, fleet, keySchema, convVars, verVars>>

\* lines 5-10, the query raises (network, auth): nothing catches it
SelectorRaises ==
    /\ spc = "idle"
    /\ squery' = Queried(fleet, FALSE)
    /\ spc' = "raised"
    /\ UNCHANGED <<soutput, sprev, fleet, keySchema, convVars, verVars>>

\* line 3: the handler is invoked once more, after an invocation that ended
SelectorAgain ==
    /\ spc \in {"returned", "raised"}
    /\ sprev' = IF spc = "returned"
                THEN [made |-> TRUE, selectable |-> squery.selectable,
                      output |-> soutput]
                ELSE sprev
    /\ squery' = NotQueried
    /\ soutput' = NoValue
    /\ spc' = "idle"
    /\ UNCHANGED <<fleet, keySchema, convVars, verVars>>

----------------------------------------------------------------------------
(* 2_ModifyVolumesLambda: the Converter *)

\* the records a caller can hand to the Converter
RecordOf(v) == [VolumeId |-> v, AvailabilityZone |-> AvailabilityZone(v)]
ConverterInputs == SeqsUpTo({RecordOf(v) : v \in Volumes}, MaxLen)

\* ec2.modify_volume(VolumeId=v, VolumeType='gp3'): the answers the service
\* may give.  A volume whose tier change is under way is always rejected
\* (IncorrectModificationState); any request may be rejected for a transient
\* reason; boto3 raises ClientError on a rejection.
modify_volume(f, v) ==
    IF f[v].modifying THEN {"rejected"} ELSE {"accepted", "rejected"}

\* line 3: the handler is invoked with an event
ConverterInvoke(ev) ==
    /\ cpc = "idle"
    /\ cevent' = ev
    /\ cidx' = 1
    /\ cpc' = "loop"
    /\ UNCHANGED <<requests, cresult, fleet, keySchema, selVars, verVars>>

\* OnModifyRejected with the rejection caught and the loop going on
OnModifyRejected_continue == [pc |-> "loop", idx |-> cidx + 1]

\* what a rejected request does to the handler (lines 6-10 hold no try):
\* the exception leaves the loop and the handler
OnModifyRejected == [pc |-> "raised", idx |-> cidx]

\* lines 6-10: one iteration of the for loop, one modify_volume call
ConverterModify ==
    /\ cpc = "loop"
    /\ cidx <= Len(cevent)
    /\ LET v == cevent[cidx].VolumeId IN
       \E answer \in modify_volume(fleet, v) :
          /\ requests' = Append(requests,
                 [VolumeId |-> v, VolumeType |-> "gp3", answer |-> answer,
                  was |-> fleet[v]])
          /\ IF answer = "accepted"
             THEN /\ fleet' = [fleet EXCEPT ![v].modifying = TRUE]
                  /\ cidx' = cidx + 1
                  /\ cpc' = "loop"
             ELSE /\ fleet' = fleet
                  /\ cidx' = OnModifyRejected.idx
                  /\ cpc' = OnModifyRejected.pc
    /\ UNCHANGED <<cevent, cresult, keySchema, selVars, verVars>>

\* lines 11-14: the dict the handler returns
\* ConverterResult naming only the last record's volume
ConverterResult_lastOnly(ev) ==
    [status |-> "submitted for conversion",
     volumes |-> IF ev = <<>> THEN <<>> ELSE <<ev[Len(ev)].VolumeId>>]

ConverterResult(ev) ==
    [status |-> "submitted for conversion",
     volumes |-> [i \in 1..Len(ev) |-> ev[i].VolumeId]]

\* lines 11-14: the loop is over, the handler returns
ConverterReturn ==
    /\ cpc = "loop"
    /\ cidx > Len(cevent)
    /\ cresult' = ConverterResult(cevent)
    /\ cpc' = "returned"
    /\ UNCHANGED <<cevent, cidx, requests, fleet, keySchema, selVars, verVars>>

----------------------------------------------------------------------------
(* 3_VerifyAndNotifyLambda: the Verifier/Notifier *)

Runs == {1, 2}

\* A Python value handed to the handler as its event: a list of items, a
\* dict, or a str holding a JSON document.
PyList(items) == [type |-> "list", value |-> items]
PyDict(d)     == [type |-> "dict", value |-> d]
PyStr(text)   == [type |-> "str", value |-> text]

\* the JSON documents of the model
JsonDocs == {"[{\"VolumeId\": \"vB\"}]", "{\"VolumeId\": \"vC\"}", "[{"}

\* json.loads(text): the parsed value, or JSONDecodeError
json_loads(text) ==
    CASE text = "[{\"VolumeId\": \"vB\"}]" ->
             [raised |-> FALSE, value |-> PyList(<<[VolumeId |-> "vB"]>>)]
      [] text = "{\"VolumeId\": \"vC\"}" ->
             [raised |-> FALSE, value |-> PyDict([VolumeId |-> "vC"])]
      [] OTHER ->
             [raised |-> TRUE, value |-> NoValue]

\* NormaliseEvent that also wraps an empty list, as `if not event or
\* isinstance(event, dict)` would
NormaliseEvent_wrapEmpty(ev) ==
    LET parsed == IF ev.type = "str"
                  THEN json_loads(ev.value)
                  ELSE [raised |-> FALSE, value |-> ev]
    IN  IF parsed.raised THEN parsed
        ELSE IF parsed.value.type = "dict" \/ parsed.value.value = <<>>
             THEN [raised |-> FALSE, value |-> <<parsed.value.value>>]
             ELSE [raised |-> FALSE, value |-> parsed.value.value]

\* lines 15-18: a str is parsed, a dict is wrapped into a one-item list
NormaliseEvent(ev) ==
    LET parsed == IF ev.type = "str"
                  THEN json_loads(ev.value)
                  ELSE [raised |-> FALSE, value |-> ev]
    IN  IF parsed.raised THEN parsed
        ELSE IF parsed.value.type = "dict"
             THEN [raised |-> FALSE, value |-> <<parsed.value.value>>]
             ELSE [raised |-> FALSE, value |-> parsed.value.value]

\* the items a caller can put in a list: a record per volume, and a dict
\* that has no 'VolumeId'
NoIdItem == [AvailabilityZone |-> "ap-south-1a"]
VerifierItems == {RecordOf(v) : v \in Volumes} \cup {NoIdItem}

\* the events a caller can hand to the Verifier directly
VerifierInputs ==
    {PyList(l) : l \in SeqsUpTo(VerifierItems, MaxLen)}
    \cup {PyDict(RecordOf(v)) : v \in Volumes}
    \cup {PyStr(t) : t \in JsonDocs}

\* ec2.describe_volumes(VolumeIds=[v]): the answers the service may give: an
\* error (transient, InvalidVolume.NotFound), an empty list, an entry that
\* lacks a field, the volume's entry, with 'Attachments' left out or empty
\* when the volume is attached to nothing
describe_volumes_by_id(f, v) ==
    LET d == Descriptor(f, v)
        bare == [VolumeId |-> v, VolumeType |-> d.VolumeType, Size |-> d.Size,
                 State |-> d.State]
        malformed == [VolumeId |-> v, VolumeType |-> d.VolumeType]
    IN  {[raised |-> TRUE, Volumes |-> <<>>],
         [raised |-> FALSE, Volumes |-> <<>>],
         [raised |-> FALSE, Volumes |-> <<malformed>>],
         [raised |-> FALSE, Volumes |-> <<d>>]}
        \cup (IF d.Attachments = <<>>
              THEN {[raised |-> FALSE, Volumes |-> <<bare>>]} ELSE {})

\* InstanceIdOf taking the last attachment instead of the first
InstanceIdOf_last(volume) ==
    LET attachments == IF "Attachments" \in DOMAIN volume
                       THEN volume.Attachments ELSE <<>>
    IN  IF attachments # <<>> THEN attachments[Len(attachments)].InstanceId
        ELSE "Unknown"

\* lines 29-30: the first attachment's instance, 'Unknown' when there is none
InstanceIdOf(volume) ==
    LET attachments == IF "Attachments" \in DOMAIN volume
                       THEN volume.Attachments ELSE <<>>
    IN  IF attachments # <<>> THEN attachments[1].InstanceId ELSE "Unknown"

\* BuildLog refusing a volume that is not at the target tier yet
BuildLog_requireTarget(volume_id, resp, now) ==
    IF resp.raised \/ resp.Volumes = <<>> THEN [raised |-> TRUE, log |-> NoValue]
    ELSE LET volume == resp.Volumes[1] IN
         IF \/ ~({"VolumeType", "Size", "State"} \subseteq DOMAIN volume)
            \/ volume.VolumeType # "gp3"
         THEN [raised |-> TRUE, log |-> NoValue]
         ELSE [raised |-> FALSE,
               log |-> [VolumeID |-> volume_id,
                        InstanceId |-> InstanceIdOf(volume),
                        VolumeType |-> volume.VolumeType,
                        Size |-> volume.Size,
                        Region |-> "ap-south-1",
                        Timestamp |-> now,
                        Status |-> volume.State]]

\* lines 24-40: the log record built from a response, or the exception that
\* stops the item (IndexError on an empty list, KeyError on a missing field)
BuildLog(volume_id, resp, now) ==
    IF resp.raised \/ resp.Volumes = <<>> THEN [raised |-> TRUE, log |-> NoValue]
    ELSE LET volume == resp.Volumes[1] IN
         IF ~({"VolumeType", "Size", "State"} \subseteq DOMAIN volume)
         THEN [raised |-> TRUE, log |-> NoValue]
         ELSE [raised |-> FALSE,
               log |-> [VolumeID |-> volume_id,
                        InstanceId |-> InstanceIdOf(volume),
                        VolumeType |-> volume.VolumeType,
                        Size |-> volume.Size,
                        Region |-> "ap-south-1",
                        Timestamp |-> now,
                        Status |-> volume.State]]

\* the primary key of an item of the table
KeyOf(item, schema) == [a \in schema |-> item[a]]

\* table.put_item(Item=item): the item replaces the stored item of the same
\* primary key, if there is one
put_item(items, item, schema) ==
    {i \in items : KeyOf(i, schema) # KeyOf(item, schema)} \cup {item}

\* lines 44-48: the message published for a logged volume
Notification(log) ==
    [Subject |-> "EBS Volume Status Logged",
     Message |-> <<"Volume ID: ", log.VolumeID, ", Status: ", log.Status>>]

\* an external call as recorded: the operation, the index of the item it was
\* issued for, its argument, and whether it returned (ok) or raised
Call(op, i, arg, ok) == [op |-> op, item |-> i, arg |-> arg, ok |-> ok]

\* line 12-18: the handler is invoked with an event; json.loads may raise
VerifierInvoke(r, ev) ==
    /\ vpc[r] = "idle"
    /\ vinput' = [vinput EXCEPT ![r] = ev]
    /\ LET n == NormaliseEvent(ev) IN
       IF n.raised
       THEN /\ vpc' = [vpc EXCEPT ![r] = "raised"]
            /\ UNCHANGED <<vevent, vidx>>
       ELSE /\ vevent' = [vevent EXCEPT ![r] = n.value]
            /\ vidx' = [vidx EXCEPT ![r] = 1]
            /\ vpc' = [vpc EXCEPT ![r] = "loop"]
    /\ UNCHANGED <<vlog, outcome, vcalls, vresult, store, topic, clock,
                   fleet, keySchema, selVars, convVars>>

\* OnItemException without the try: the exception leaves the handler
OnItemException_raise(r) ==
    [pc |-> "raised", idx |-> vidx[r], outcome |-> outcome[r]]

\* OnItemException with the failed item tried again
OnItemException_retry(r) ==
    [pc |-> "loop", idx |-> vidx[r], outcome |-> outcome[r]]

\* lines 50-52: the except clause prints and the loop goes on to the next item
OnItemException(r) ==
    [pc |-> "loop", idx |-> vidx[r] + 1, outcome |-> Append(outcome[r], "Failed")]

\* the item the loop is at ended in the except clause
ItemFailed(r) ==
    /\ vpc' = [vpc EXCEPT ![r] = OnItemException(r).pc]
    /\ vidx' = [vidx EXCEPT ![r] = OnItemException(r).idx]
    /\ outcome' = [outcome EXCEPT ![r] = OnItemException(r).outcome]

\* VerifierQuery with an except clause that writes a failure record to the
\* table
VerifierQuery_logsFailure(r) ==
    /\ vpc[r] = "loop"
    /\ vidx[r] <= Len(vevent[r])
    /\ LET vol == vevent[r][vidx[r]]
           failure == [VolumeID |-> "Unknown", Timestamp |-> clock,
                       Status |-> "verify-failed"]
       IN
       IF "VolumeId" \notin DOMAIN vol
       THEN /\ ItemFailed(r)
            /\ store' = put_item(store, failure, keySchema)
            /\ UNCHANGED <<vlog, vcalls, clock>>
       ELSE \E resp \in describe_volumes_by_id(fleet, vol.VolumeId) :
            LET built == BuildLog(vol.VolumeId, resp, clock) IN
            /\ vcalls' = [vcalls EXCEPT ![r] =
                   Append(@, Call("describe_volumes", vidx[r], vol.VolumeId,
                               ~resp.raised))]
            /\ IF built.raised
               THEN /\ ItemFailed(r)
                    /\ store' = put_item(store, failure, keySchema)
                    /\ UNCHANGED <<vlog, clock>>
               ELSE /\ vlog' = [vlog EXCEPT ![r] = built.log]
                    /\ clock' = clock + 1
                    /\ vpc' = [vpc EXCEPT ![r] = "put"]
                    /\ UNCHANGED <<vidx, outcome, store>>
    /\ UNCHANGED <<vinput, vevent, vresult, topic, fleet, keySchema,
                   selVars, convVars>>

\* lines 22-40: the item's id is read, the volume is queried, the log record
\* is built
VerifierQuery(r) ==
    /\ vpc[r] = "loop"
    /\ vidx[r] <= Len(vevent[r])
    /\ LET vol == vevent[r][vidx[r]] IN
       IF "VolumeId" \notin DOMAIN vol
       THEN \* line 22 raises KeyError
            /\ ItemFailed(r)
            /\ UNCHANGED <<vlog, vcalls, clock>>
       ELSE \E resp \in describe_volumes_by_id(fleet, vol.VolumeId) :
            LET built == BuildLog(vol.VolumeId, resp, clock) IN
            /\ vcalls' = [vcalls EXCEPT ![r] =
                   Append(@, Call("describe_volumes", vidx[r], vol.VolumeId,
                               ~resp.raised))]
            /\ IF built.raised
               THEN /\ ItemFailed(r)
                    /\ UNCHANGED <<vlog, clock>>
               ELSE /\ vlog' = [vlog EXCEPT ![r] = built.log]
                    /\ clock' = clock + 1
                    /\ vpc' = [vpc EXCEPT ![r] = "put"]
                    /\ UNCHANGED <<vidx, outcome>>
    /\ UNCHANGED <<vinput, vevent, vresult, store, topic, fleet, keySchema,
                   selVars, convVars>>

\* VerifierPut with put_item in a try of its own that swallows the error
VerifierPut_swallow(r) ==
    /\ vpc[r] = "put"
    /\ \E ok \in BOOLEAN :
          /\ vcalls' = [vcalls EXCEPT ![r] =
                 Append(@, Call("put_item", vidx[r], vlog[r], ok))]
          /\ store' = IF ok THEN put_item(store, vlog[r], keySchema) ELSE store
          /\ vpc' = [vpc EXCEPT ![r] = "publish"]
          /\ UNCHANGED <<vidx, outcome>>
    /\ UNCHANGED <<vinput, vevent, vlog, vresult, topic, clock, fleet,
                   keySchema, selVars, convVars>>

\* line 42: table.put_item(Item=log) returns or raises
VerifierPut(r) ==
    /\ vpc[r] = "put"
    /\ \E ok \in BOOLEAN :
          /\ vcalls' = [vcalls EXCEPT ![r] =
                 Append(@, Call("put_item", vidx[r], vlog[r], ok))]
          /\ IF ok
             THEN /\ store' = put_item(store, vlog[r], keySchema)
                  /\ vpc' = [vpc EXCEPT ![r] = "publish"]
                  /\ UNCHANGED <<vidx, outcome>>
             ELSE /\ ItemFailed(r)
                  /\ UNCHANGED store
    /\ UNCHANGED <<vinput, vevent, vlog, vresult, topic, clock, fleet,
                   keySchema, selVars, convVars>>

\* VerifierPublish with a compensating delete of the record when publish raises
VerifierPublish_rollback(r) ==
    /\ vpc[r] = "publish"
    /\ \E ok \in BOOLEAN :
          /\ vcalls' = [vcalls EXCEPT ![r] =
                 Append(@, Call("publish", vidx[r], Notification(vlog[r]), ok))]
          /\ IF ok
             THEN /\ topic' = Append(topic, Notification(vlog[r]))
                  /\ outcome' = [outcome EXCEPT ![r] = Append(@, "Notified")]
                  /\ vidx' = [vidx EXCEPT ![r] = @ + 1]
                  /\ vpc' = [vpc EXCEPT ![r] = "loop"]
                  /\ store' = store
             ELSE /\ ItemFailed(r)
                  /\ store' = store \ {vlog[r]}
                  /\ UNCHANGED topic
    /\ UNCHANGED <<vinput, vevent, vlog, vresult, clock, fleet, keySchema,
                   selVars, convVars>>

\* lines 44-48: sns.publish returns or raises
VerifierPublish(r) ==
    /\ vpc[r] = "publish"
    /\ \E ok \in BOOLEAN :
          /\ vcalls' = [vcalls EXCEPT ![r] =
                 Append(@, Call("publish", vidx[r], Notification(vlog[r]), ok))]
          /\ IF ok
             THEN /\ topic' = Append(topic, Notification(vlog[r]))
                  /\ outcome' = [outcome EXCEPT ![r] = Append(@, "Notified")]
                  /\ vidx' = [vidx EXCEPT ![r] = @ + 1]
                  /\ vpc' = [vpc EXCEPT ![r] = "loop"]
             ELSE /\ ItemFailed(r)
                  /\ UNCHANGED topic
    /\ UNCHANGED <<vinput, vevent, vlog, vresult, store, clock, fleet,
                   keySchema, selVars, convVars>>

\* line 54: the dict the handler returns
VerifierResult(out) == [status |-> "logged and notified"]

\* line 54: the loop is over, the handler returns
VerifierReturn(r) ==
    /\ vpc[r] = "loop"
    /\ vidx[r] > Len(vevent[r])
    /\ vresult' = [vresult EXCEPT ![r] = VerifierResult(outcome[r])]
    /\ vpc' = [vpc EXCEPT ![r] = "returned"]
    /\ UNCHANGED <<vinput, vevent, vidx, vlog, outcome, vcalls, store, topic,
                   clock, fleet, keySchema, selVars, convVars>>

----------------------------------------------------------------------------
(* Specifications *)

\* the primary keys table VolumeConversionLogs may have been created with,
\* among the attributes every written item carries
KeySchemas == {{"VolumeID"}, {"VolumeID", "Timestamp"}}

InitHandlers ==
    /\ keySchema \in KeySchemas
    /\ clock = 0
    /\ spc = "idle" /\ soutput = NoValue
    /\ squery = NotQueried /\ sprev = NotQueried
    /\ cpc = "idle" /\ cevent = <<>> /\ cidx = 1 /\ requests = <<>>
    /\ cresult = NoValue
    /\ vpc = [r \in Runs |-> "idle"]
    /\ vinput = [r \in Runs |-> NoValue]
    /\ vevent = [r \in Runs |-> <<>>]
    /\ vidx = [r \in Runs |-> 1]
    /\ vlog = [r \in Runs |-> NoValue]
    /\ outcome = [r \in Runs |-> <<>>]
    /\ vcalls = [r \in Runs |-> <<>>]
    /\ vresult = [r \in Runs |-> NoValue]
    /\ store = {}
    /\ topic = <<>>

\* the fleet as the Verifier meets it after a submission: every volume is
\* at either tier, and a gp2 volume's tier change is under way
InitVerifier ==
    /\ fleet \in [Volumes -> {d \in VolumeDescriptors :
                        d.tag = "true" /\ d.modifying = (d.VolumeType = "gp2")}]
    /\ InitHandlers

\* the fleet as the Selector alone meets it: any
InitSelector ==
    /\ fleet \in [Volumes -> VolumeDescriptors]
    /\ InitHandlers

\* the fleet as the Converter alone meets it: tiers and tier changes vary
InitConverter ==
    /\ fleet \in [Volumes -> {d \in VolumeDescriptors : d.tag = "true"}]
    /\ InitHandlers

\* the fleet at the start of a pipeline run: tags and tiers vary
Init ==
    /\ fleet \in [Volumes -> {d \in VolumeDescriptors : ~d.modifying}]
    /\ InitHandlers

\* the fleet changes under the handlers
Fleet ==
    \E v \in Volumes : ModificationCompletes(v) \/ ExternalModify(v)

Selector == SelectorReturns \/ SelectorRaises

Converter(inputs) ==
    \/ \E ev \in inputs : ConverterInvoke(ev)
    \/ ConverterModify
    \/ ConverterReturn

Verifier(r, inputs) ==
    \/ \E ev \in inputs : VerifierInvoke(r, ev)
    \/ VerifierQuery(r)
    \/ VerifierPut(r)
    \/ VerifierPublish(r)
    \/ VerifierReturn(r)

\* each handler invoked on its own, with any event
NextSelector == Selector \/ SelectorAgain \/ Fleet
SpecSelector == InitSelector /\ [][NextSelector]_vars

NextConverter == Converter(ConverterInputs) \/ Fleet
SpecConverter == InitConverter /\ [][NextConverter]_vars

NextVerifier ==
    \/ Verifier(1, VerifierInputs)
    \/ \E v \in Volumes : ModificationCompletes(v)
SpecVerifier == InitVerifier /\ [][NextVerifier]_vars

\* Two Verifier runs at once, their steps interleaved in any order, each on
\* a list that names no volume twice
ConcurrentInputs ==
    {PyList(l) : l \in {q \in SeqsUpTo({RecordOf(v) : v \in Volumes}, MaxLen) :
                           \A i, j \in DOMAIN q : q[i] = q[j] => i = j}}

\* the fleet right after a submission: every tier change is under way
InitConcurrent ==
    /\ fleet = [v \in Volumes |->
                   [tag |-> "true", VolumeType |-> "gp2", modifying |-> TRUE]]
    /\ InitHandlers

NextConcurrent == \E r \in Runs : Verifier(r, ConcurrentInputs)
SpecConcurrent == InitConcurrent /\ [][NextConcurrent]_vars

\* The pipeline: the stages run one after the other, each handed what an
\* earlier one returned: the Converter the Selector's list, the Verifier
\* the Converter's dict or the Selector's list.
HandedToConverter == IF spc = "returned" THEN {soutput} ELSE {}
HandedToVerifier ==
    IF cpc = "returned" THEN {PyDict(cresult), PyList(soutput)} ELSE {}

Next ==
    \/ Selector
    \/ Converter(HandedToConverter)
    \/ Verifier(1, HandedToVerifier)
    \/ Fleet

Spec == Init /\ [][Next]_vars

----------------------------------------------------------------------------
(* Properties of the Verifier/Notifier, under SpecVerifier *)

\* the calls of run r, as indices into vcalls[r]
PutCalls(r, i, ok) ==
    {k \in DOMAIN vcalls[r] : /\ vcalls[r][k].op = "put_item"
                              /\ vcalls[r][k].item = i
                              /\ vcalls[r][k].ok = ok}
PublishCalls(r, i, ok) ==
    {k \in DOMAIN vcalls[r] : /\ vcalls[r][k].op = "publish"
                              /\ vcalls[r][k].item = i
                              /\ vcalls[r][k].ok = ok}
Items(r) == 1..Len(vevent[r])

\* C1: persist-before-notify.  In every run, a publish call is issued for an
\* item only after the put_item call of that same item has returned, an item
\* whose put_item raised gets no publish call, and every message on the topic
\* is one such publish call's.
C1_PersistBeforeNotify ==
    /\ \A r \in Runs : \A i \in Items(r) :
          /\ \A k \in PublishCalls(r, i, TRUE) \cup PublishCalls(r, i, FALSE) :
                \E j \in PutCalls(r, i, TRUE) : j < k
          /\ PutCalls(r, i, FALSE) # {} =>
                PublishCalls(r, i, TRUE) \cup PublishCalls(r, i, FALSE) = {}
    /\ \A m \in DOMAIN topic :
          \E r \in Runs : \E i \in Items(r) : \E k \in PublishCalls(r, i, TRUE) :
             /\ vcalls[r][k].arg = topic[m]
             /\ \E j \in PutCalls(r, i, TRUE) :
                   j < k /\ Notification(vcalls[r][j].arg) = topic[m]

\* a returned run in which the first item's audit write failed and the
\* second item was written and notified
C1_Witness ==
    /\ vpc[1] = "returned"
    /\ PutCalls(1, 1, FALSE) # {}
    /\ PutCalls(1, 2, TRUE) # {}
    /\ PublishCalls(1, 2, TRUE) # {}
    /\ Len(topic) = 1

\* C3: isolation and termination of the Verifier.  Handed a list, the handler
\* never raises; every item it has gone past has exactly one terminal state,
\* Notified exactly when its publish returned; it is never stuck inside the
\* loop; and when it has returned every item of the list has its terminal
\* state, whatever failed before it.
C3_VerifierIsolation ==
    \A r \in Runs :
       (vpc[r] # "idle" /\ vinput[r].type = "list") =>
          /\ vpc[r] # "raised"
          /\ vevent[r] = vinput[r].value
          /\ Len(outcome[r]) = vidx[r] - 1
          /\ \A i \in DOMAIN outcome[r] :
                /\ outcome[r][i] \in {"Notified", "Failed"}
                /\ outcome[r][i] = "Notified" <=> PublishCalls(r, i, TRUE) # {}
          /\ vpc[r] \in {"loop", "put", "publish"} =>
                ENABLED (\/ VerifierQuery(r) \/ VerifierPut(r)
                         \/ VerifierPublish(r) \/ VerifierReturn(r))
          /\ vpc[r] = "returned" => Len(outcome[r]) = Len(vinput[r].value)

\* a list whose first item failed and whose second item was notified
C3_Witness ==
    /\ vpc[1] = "returned"
    /\ vinput[1].type = "list"
    /\ outcome[1] = <<"Failed", "Notified">>

\* the successful put_item calls of run r, over all its items
WrittenBy(r) ==
    {k \in DOMAIN vcalls[r] : vcalls[r][k].op = "put_item" /\ vcalls[r][k].ok}

\* C5: the audit log is append-only.  Every record a put_item call of the
\* Verifier has written is still in the table as it was written, so a volume
\* verified twice has two records there: the table holds as many records as
\* there were successful writes.
C5_AppendOnlyAudit ==
    \A r \in Runs :
       /\ \A k \in WrittenBy(r) : vcalls[r][k].arg \in store
       /\ (\A q \in Runs \ {r} : vpc[q] = "idle") =>
             Cardinality(store) = Cardinality(WrittenBy(r))

\* run r takes the step in which its publish call raises
PublishRaises(r) ==
    /\ vpc[r] = "publish"
    /\ vpc'[r] # "publish"
    /\ ~vcalls'[r][Len(vcalls'[r])].ok

\* run r takes the step in which its put_item call returns
PutReturns(r) == vpc[r] = "put" /\ vpc'[r] = "publish"

\* C6: no rollback on a notification failure.  The step in which the publish
\* of an item raises leaves the table as it is, with the record written for
\* the item in it, ends the item Failed and takes the handler to the next
\* item; and no step of the handler deletes a record: a record leaves the
\* table only when a put_item writes another record of the same key.
C6_NoRollback ==
    [][/\ \A r \in Runs :
             PublishRaises(r) =>
                /\ store' = store
                /\ vlog[r] \in store'
                /\ outcome'[r] = Append(outcome[r], "Failed")
                /\ vidx'[r] = vidx[r] + 1
                /\ vpc'[r] = "loop"
       /\ \A rec \in store \ store' :
             \E r \in Runs :
                /\ PutReturns(r)
                /\ vlog[r] \in store'
                /\ KeyOf(vlog[r], keySchema) = KeyOf(rec, keySchema)]_vars

\* the publish of the first item raised, its record is in the table, and the
\* second item was written and notified
C6_Witness ==
    /\ vpc[1] = "returned"
    /\ PublishCalls(1, 1, FALSE) # {}
    /\ \E j \in PutCalls(1, 1, TRUE) : vcalls[1][j].arg \in store
    /\ outcome[1] = <<"Failed", "Notified">>
    /\ Cardinality(store) = 2

\* C7: failures are reported in the result.  A run in which an item ended
\* Failed returns a value other than the one a run of as many items that
\* all ended Notified returns.
C7_FailuresReported ==
    \A r \in Runs :
       (vpc[r] = "returned" /\ \E i \in DOMAIN outcome[r] : outcome[r][i] = "Failed")
          => vresult[r] # VerifierResult([i \in DOMAIN outcome[r] |-> "Notified"])

\* run r takes the step in which the query of the item it is at fails: the
\* item has no VolumeId, describe_volumes raises, or its answer is empty or
\* lacks a field
QueryFails(r) ==
    /\ vpc[r] = "loop"
    /\ vidx[r] <= Len(vevent[r])
    /\ vidx'[r] = vidx[r] + 1

\* C15: a query failure leaves the stores untouched for that item.  The step
\* in which the query of an item fails changes neither the table nor the
\* topic and ends the item Failed with no put_item and no publish call
\* issued for it; and a call is only ever issued for the item the loop is
\* at, so none is issued for that item afterwards.
C15_QueryFailureFrame ==
    [][\A r \in Runs :
          /\ QueryFails(r) =>
                /\ store' = store
                /\ topic' = topic
                /\ outcome'[r] = Append(outcome[r], "Failed")
                /\ vpc'[r] = "loop"
                /\ \A k \in DOMAIN vcalls'[r] :
                      vcalls'[r][k].item = vidx[r] =>
                         vcalls'[r][k].op = "describe_volumes"
          /\ vcalls'[r] # vcalls[r] =>
                /\ Len(vcalls'[r]) = Len(vcalls[r]) + 1
                /\ SubSeq(vcalls'[r], 1, Len(vcalls[r])) = vcalls[r]
                /\ vcalls'[r][Len(vcalls'[r])].item = vidx[r]]_vars

\* the query of the first item failed and left the table alone; the second
\* item was written and notified
C15_Witness ==
    /\ vpc[1] = "returned"
    /\ \E k \in DOMAIN vcalls[1] :
          /\ vcalls[1][k].op = "describe_volumes"
          /\ vcalls[1][k].item = 1
          /\ ~vcalls[1][k].ok
    /\ PutCalls(1, 1, TRUE) \cup PutCalls(1, 1, FALSE) = {}
    /\ outcome[1] = <<"Failed", "Notified">>
    /\ Cardinality(store) = 1 /\ Len(topic) = 1

----------------------------------------------------------------------------
(* Properties of the Converter, under SpecConverter *)

Finished == cpc \in {"returned", "raised"}
Accepted == {k \in DOMAIN requests : requests[k].answer = "accepted"}
Rejected == {k \in DOMAIN requests : requests[k].answer = "rejected"}

\* C2: isolation in the Converter.  When the handler has finished, it has
\* returned a result, and it has issued a tier-change request for every
\* record of its event, whichever requests were rejected.
C2_ConverterIsolation ==
    Finished =>
       /\ cpc = "returned"
       /\ \A i \in DOMAIN cevent :
             \E k \in DOMAIN requests : requests[k].VolumeId = cevent[i].VolumeId

\* the status the result is to carry for the answers the requests got
AggregateStatus ==
    IF Rejected = {} THEN "submitted"
    ELSE IF Accepted = {} THEN "failed" ELSE "partial"

\* what the returned status says, as one of submitted, partial, failed
StatusOf(result) ==
    IF result.status = "submitted for conversion" THEN "submitted"
    ELSE result.status

\* C4: aggregate status of the Converter.  When the handler has finished, it
\* has returned a result whose status is submitted, partial or failed as the
\* requests were all accepted, some rejected or none accepted, and whose id
\* list holds exactly the ids whose request was accepted.
C4_AggregateStatus ==
    Finished =>
       /\ cpc = "returned"
       /\ StatusOf(cresult) = AggregateStatus
       /\ Range(cresult.volumes) = {requests[k].VolumeId : k \in Accepted}

\* a request made for a volume that was at the target tier already, or whose
\* tier change was under way
Stale(req) == req.was.VolumeType = "gp3" \/ req.was.modifying

\* C8: stale snapshots are tolerated.  A request for a volume already at the
\* target tier or already mid-conversion does not make the handler fail: the
\* handler goes on to the remaining records and returns.
C8_StaleTolerated ==
    \A k \in DOMAIN requests :
       Stale(requests[k]) =>
          /\ cpc # "raised"
          /\ cpc = "returned" => Len(requests) = Len(cevent)

----------------------------------------------------------------------------
(* Properties of the hand-off, under Spec *)

\* every external call of run r returned
AllCallsSucceeded(r) == \A k \in DOMAIN vcalls[r] : vcalls[r][k].ok

\* C9: hand-off from the Converter to the Verifier.  A Verifier run that was
\* handed the dict the Converter returned, and whose external calls all
\* succeeded, has queried, written a record for, and published a
\* notification for every volume id the dict lists.
C9_HandOff ==
    (/\ cpc = "returned"
     /\ vpc[1] = "returned"
     /\ vinput[1] = PyDict(cresult)
     /\ AllCallsSucceeded(1)) =>
        \A n \in DOMAIN cresult.volumes :
           LET id == cresult.volumes[n] IN
           /\ \E k \in DOMAIN vcalls[1] :
                 vcalls[1][k].op = "describe_volumes" /\ vcalls[1][k].arg = id
           /\ \E k \in DOMAIN vcalls[1] :
                 vcalls[1][k].op = "put_item" /\ vcalls[1][k].arg.VolumeID = id
           /\ \E k \in DOMAIN vcalls[1] :
                 vcalls[1][k].op = "publish" /\ vcalls[1][k].arg.Message[2] = id

----------------------------------------------------------------------------
(* Properties of the Selector, under SpecSelector *)

\* the volumes of the fleet that carry tag AutoConvert = true and are gp2
Selectable(f) ==
    {v \in Volumes : f[v].tag = "true" /\ f[v].VolumeType = "gp2"}

\* the fleet {A: tag=true, gp2}, {B: tag=false, gp2}, {C: tag=true, gp3}
IsExampleFleet(f) ==
    /\ f["vA"].tag = "true"  /\ f["vA"].VolumeType = "gp2"
    /\ f["vB"].tag = "false" /\ f["vB"].VolumeType = "gp2"
    /\ f["vC"].tag = "true"  /\ f["vC"].VolumeType = "gp3"

\* C10: filter exactness.  The list the Selector returns holds exactly one
\* record per volume that is tagged AutoConvert = true and is gp2 when the
\* handler queries the fleet, each with that volume's id and availability
\* zone, and no other record; for the example fleet it is the record of A.
C10_FilterExactness ==
    [][(spc = "idle" /\ spc' = "returned") =>
          /\ Len(soutput') = Cardinality(Selectable(fleet))
          /\ Range(soutput') =
                {[VolumeId |-> v, AvailabilityZone |-> AvailabilityZone(v)] :
                    v \in Selectable(fleet)}
          /\ IsExampleFleet(fleet) =>
                soutput' = <<[VolumeId |-> "vA",
                              AvailabilityZone |-> "ap-south-1a"]>>]_vars

\* the Selector has returned the record of A alone from the example fleet
C10_Witness ==
    /\ spc = "returned"
    /\ IsExampleFleet(fleet)
    /\ soutput = <<[VolumeId |-> "vA", AvailabilityZone |-> "ap-south-1a"]>>

\* C11: all-or-nothing failure of the Selector.  When the inventory query
\* of an invocation has failed, the handler has raised and has returned no
\* list, partial or empty.
C11_SelectorAllOrNothing ==
    (squery.made /\ ~squery.ok) => (spc = "raised" /\ soutput = NoValue)

\* the query failed on a fleet that has volumes to select, and nothing was
\* returned
C11_Witness ==
    /\ spc = "raised"
    /\ squery.made /\ ~squery.ok
    /\ squery.selectable # {}

\* the volume ids a returned list names
IdsOf(output) == {output[i].VolumeId : i \in DOMAIN output}

\* C13: purity of the Selector.  An invocation of the handler leaves the
\* fleet as it is and issues no tier change, audit write or notification;
\* and when the volumes to select are the same as at the invocation before
\* (as they are when the fleet is unchanged), the list it returns names the
\* same set of volume ids as the list returned then, in whatever order.
C13_SelectorPurity ==
    [][(spc = "idle" /\ spc' # "idle") =>
          /\ fleet' = fleet
          /\ requests' = requests
          /\ store' = store
          /\ topic' = topic
          /\ vcalls' = vcalls
          /\ (/\ spc' = "returned"
              /\ sprev.made
              /\ sprev.selectable = Selectable(fleet)) =>
                 IdsOf(soutput') = IdsOf(sprev.output)]_vars

\* a second invocation on the same volumes to select has returned the same
\* two ids in the other order
C13_Witness ==
    /\ spc = "returned"
    /\ sprev.made
    /\ sprev.selectable = squery.selectable
    /\ Len(soutput) = 2
    /\ soutput # sprev.output
    /\ IdsOf(soutput) = IdsOf(sprev.output)

----------------------------------------------------------------------------
(* Properties of all three stages, under Spec *)

\* C12: empty input.  The Selector returns the empty list when no volume is
\* to be selected; the Converter handed the empty list issues no tier-change
\* request, does not raise and returns an empty id list; the Verifier handed
\* the empty list issues no query, no audit write and no publish, processes
\* no item, does not raise and returns its result.
C12_EmptyInput ==
    /\ (squery.made /\ squery.ok /\ squery.selectable = {}) =>
          (spc = "returned" /\ soutput = <<>>)
    /\ (cpc # "idle" /\ cevent = <<>>) =>
          /\ cpc # "raised"
          /\ requests = <<>>
          /\ cpc = "loop" => ENABLED ConverterReturn
          /\ cpc = "returned" => cresult.volumes = <<>>
    /\ \A r \in Runs :
          (vpc[r] # "idle" /\ vinput[r].type = "list" /\ vinput[r].value = <<>>) =>
             /\ vpc[r] # "raised"
             /\ vcalls[r] = <<>>
             /\ outcome[r] = <<>>
             /\ store = {} /\ topic = <<>>
             /\ vpc[r] = "loop" => ENABLED VerifierReturn(r)
             /\ vpc[r] = "returned" => vresult[r] = [status |-> "logged and notified"]

\* the three stages have returned, each on nothing: no volume was to be
\* selected, and the empty list was handed on twice
C12_Witness ==
    /\ spc = "returned" /\ squery.selectable = {} /\ soutput = <<>>
    /\ cpc = "returned" /\ cevent = <<>> /\ cresult.volumes = <<>>
    /\ vpc[1] = "returned" /\ vinput[1] = PyList(<<>>)

----------------------------------------------------------------------------
(* Properties of concurrent Verifier runs, under SpecConcurrent *)

\* C14: concurrent Verifier runs are safe.  Every record a successful
\* put_item of either run has written is in the table, whatever the other
\* run has written, and in each run a publish call of an item comes only
\* after the successful put_item of that item.
C14_ConcurrentRunsSafe ==
    \A r \in Runs :
       /\ \A k \in WrittenBy(r) : vcalls[r][k].arg \in store
       /\ \A i \in Items(r) :
             \A k \in PublishCalls(r, i, TRUE) \cup PublishCalls(r, i, FALSE) :
                \E j \in PutCalls(r, i, TRUE) : j < k

----------------------------------------------------------------------------
(* Further properties of the Converter, under SpecConverter *)

\* C16: one mutation request per record.  While no request has failed, the
\* k-th request issued is the gp3 request for the volume of the k-th record
\* of the input, so the requests are exactly one per record and none is for
\* an id outside the input; once the loop is over the handler can return
\* whether or not the tier changes have completed, and what it returns names
\* the ids of the input records in order.
C16_OneRequestPerRecord ==
    (cpc \in {"loop", "returned"} /\ Rejected = {}) =>
       /\ Len(requests) = cidx - 1
       /\ Len(requests) <= Len(cevent)
       /\ \A k \in DOMAIN requests :
             /\ requests[k].VolumeId = cevent[k].VolumeId
             /\ requests[k].VolumeType = "gp3"
       /\ (cpc = "loop" /\ cidx > Len(cevent)) => ENABLED ConverterReturn
       /\ cpc = "returned" =>
             /\ Len(requests) = Len(cevent)
             /\ cresult.status = "submitted for conversion"
             /\ cresult.volumes = [i \in 1..Len(cevent) |-> cevent[i].VolumeId]

\* the handler returned after two accepted requests while both tier changes
\* are still under way
C16_Witness ==
    /\ cpc = "returned"
    /\ Len(requests) = 2 /\ Rejected = {}
    /\ cresult.volumes = <<requests[1].VolumeId, requests[2].VolumeId>>
    /\ \A k \in DOMAIN requests :
          /\ fleet[requests[k].VolumeId].modifying
          /\ fleet[requests[k].VolumeId].VolumeType = "gp2"

----------------------------------------------------------------------------
(* Further properties of the Verifier/Notifier, under SpecVerifier *)

\* the instance a volume belongs to, by the order in which the inventory
\* lists its attachments
OwnerOf(v) ==
    IF Attachments(v) = <<>> THEN "Unknown" ELSE Attachments(v)[1].InstanceId

\* C17: attachment owner in the audit record.  The record built by the
\* successful query of an item carries the item's volume id, the instance of
\* the volume's first attachment in the order the inventory lists them, or
\* 'Unknown' when the volume has none (whether the answer holds an empty
\* list or no list), and the type, size and state the volume had at that
\* query; and that record, unchanged, is what the put_item of the same item
\* writes to the table.
C17_AttachmentOwner ==
    [][\A r \in Runs :
          /\ (vpc[r] = "loop" /\ vpc'[r] = "put") =>
                LET v == vevent[r][vidx[r]].VolumeId IN
                /\ vlog'[r].VolumeID = v
                /\ vlog'[r].InstanceId = OwnerOf(v)
                /\ vlog'[r].VolumeType = fleet[v].VolumeType
                /\ vlog'[r].Size = Size(v)
                /\ vlog'[r].Status = State(v)
          /\ (vpc[r] = "put" /\ vpc'[r] = "publish") =>
                /\ vlog[r] \in store'
                /\ vcalls'[r][Len(vcalls'[r])].arg = vlog[r]]_vars

\* the table holds the record of a volume with two attachments, naming the
\* first, and the record of a volume with none, naming 'Unknown'
C17_Witness ==
    /\ \E i \in store : i.VolumeID = "vC" /\ i.InstanceId = "i2"
    /\ \E i \in store : i.VolumeID = "vA" /\ i.InstanceId = "Unknown"
    /\ Len(Attachments("vC")) = 2 /\ Attachments("vA") = <<>>

\* the positions in run r's call log of the calls of operation op issued for
\* item i
CallsOf(r, i, op) ==
    {k \in DOMAIN vcalls[r] : vcalls[r][k].item = i /\ vcalls[r][k].op = op}

\* the items of run r whose processing is over
Done(r) == {i \in Items(r) : i < vidx[r]}

\* C18: verify, don't wait.  A run queries the volume of each item at most
\* once, and exactly once when the item is over and names a volume; it
\* issues at most three calls per item; and whatever tier and modification
\* state the volume is in, the query of an item that names a volume can
\* succeed, the write can follow it and the publish can end the item
\* Notified, after which the loop moves on, and a run whose loop is over
\* can return.
C18_VerifyDontWait ==
    \A r \in Runs : vpc[r] \in {"loop", "put", "publish", "returned"} =>
       /\ \A i \in Items(r) :
             /\ Cardinality(CallsOf(r, i, "describe_volumes")) <= 1
             /\ Cardinality(CallsOf(r, i, "put_item")) <= 1
             /\ Cardinality(CallsOf(r, i, "publish")) <= 1
             /\ (i \in Done(r) /\ "VolumeId" \in DOMAIN vevent[r][i]) =>
                   Cardinality(CallsOf(r, i, "describe_volumes")) = 1
       /\ Len(vcalls[r]) <= 3 * Len(vevent[r])
       /\ (vpc[r] = "loop" /\ vidx[r] <= Len(vevent[r])
             /\ "VolumeId" \in DOMAIN vevent[r][vidx[r]]) =>
             ENABLED (VerifierQuery(r) /\ vpc'[r] = "put")
       /\ vpc[r] = "put" =>
             ENABLED (VerifierPut(r) /\ vpc'[r] = "publish")
       /\ vpc[r] = "publish" =>
             ENABLED (/\ VerifierPublish(r)
                      /\ outcome'[r] = Append(outcome[r], "Notified")
                      /\ vidx'[r] = vidx[r] + 1
                      /\ vpc'[r] = "loop")
       /\ (vpc[r] = "loop" /\ vidx[r] > Len(vevent[r])) =>
             ENABLED VerifierReturn(r)

\* the run ended with an item Notified whose record shows the volume still
\* at the source tier, its tier change under way
C18_Witness ==
    /\ vpc[1] = "returned"
    /\ outcome[1] = <<"Notified", "Notified">>
    /\ Len(vcalls[1]) = 3 * Len(vevent[1])
    /\ \E i \in store : i.VolumeType = "gp2" /\ fleet[i.VolumeID].modifying

----------------------------------------------------------------------------
(* The aborted Converter run, under SpecConverter *)

\* C19: partial effect of an aborted Converter run.  A rejected request is
\* the last request of the run: the handler has raised at its position k and
\* returned nothing; the requests for the positions before k were issued and
\* accepted, their volumes are left with the tier change requested (still
\* under way or completed, never undone), and no request was issued for a
\* position after k.
C19_AbortedRunPartialEffect ==
    \A k \in Rejected :
       /\ cpc = "raised"
       /\ cresult = NoValue
       /\ k = cidx /\ k = Len(requests) /\ k <= Len(cevent)
       /\ \A j \in 1..k : requests[j].VolumeId = cevent[j].VolumeId
       /\ \A j \in 1..(k - 1) :
             /\ requests[j].answer = "accepted"
             /\ \/ fleet[cevent[j].VolumeId].modifying
                \/ fleet[cevent[j].VolumeId].VolumeType = "gp3"

\* the second of two requests was rejected after the first was accepted
C19_Witness ==
    /\ cpc = "raised" /\ cresult = NoValue
    /\ Len(cevent) = 2 /\ Len(requests) = 2
    /\ requests[1].answer = "accepted" /\ requests[2].answer = "rejected"
    /\ requests[1].VolumeId # requests[2].VolumeId

----------------------------------------------------------------------------
(* The order of the Verifier/Notifier's calls, under SpecVerifier *)

\* the place of an operation in the body of the loop
Rank(op) ==
    CASE op = "describe_volumes" -> 1
      [] op = "put_item" -> 2
      [] op = "publish" -> 3

\* the positions in run r's call log of the calls of op that returned
Returned(r, op) ==
    {k \in DOMAIN vcalls[r] : vcalls[r][k].op = op /\ vcalls[r][k].ok}

\* C20: sequential per-item ordering in the Verifier.  The calls of a run
\* are issued item by item in input order, and within an item in the order
\* query, write, publish, each at most once and each only after the one
\* before it returned; every call is for an item that is over or for the
\* item the loop is at.  So the notifications published are at most as many
\* as the writes that returned, which are at most as many as the queries
\* that returned, and the table holds no more records than were written.
C20_SequentialOrdering ==
    \A r \in Runs : vpc[r] \in {"loop", "put", "publish", "returned"} =>
       /\ \A j, k \in DOMAIN vcalls[r] :
             j < k =>
                \/ vcalls[r][j].item < vcalls[r][k].item
                \/ /\ vcalls[r][j].item = vcalls[r][k].item
                   /\ Rank(vcalls[r][j].op) < Rank(vcalls[r][k].op)
       /\ \A k \in DOMAIN vcalls[r] :
             /\ vcalls[r][k].item \in Items(r)
             /\ vcalls[r][k].item <= vidx[r]
             /\ Rank(vcalls[r][k].op) > 1 =>
                   /\ k > 1
                   /\ vcalls[r][k - 1].item = vcalls[r][k].item
                   /\ Rank(vcalls[r][k - 1].op) = Rank(vcalls[r][k].op) - 1
                   /\ vcalls[r][k - 1].ok
       /\ Len(outcome[r]) = Cardinality(Done(r))
       /\ Cardinality(Returned(r, "publish"))
             <= Cardinality(Returned(r, "put_item"))
       /\ Cardinality(Returned(r, "put_item"))
             <= Cardinality(Returned(r, "describe_volumes"))
       /\ (r = 1 /\ vpc[2] = "idle") =>
             /\ Len(topic) = Cardinality(Returned(r, "publish"))
             /\ Cardinality(store) <= Cardinality(Returned(r, "put_item"))

\* a run of two items: the three calls of the first, then the query and the
\* write of the second, whose publish is still to come
C20_Witness ==
    /\ vpc[1] = "publish" /\ vidx[1] = 2
    /\ Len(vcalls[1]) = 5
    /\ \A k \in 1..3 : vcalls[1][k].item = 1 /\ vcalls[1][k].ok
    /\ \A k \in 4..5 : vcalls[1][k].item = 2 /\ vcalls[1][k].ok
    /\ Len(topic) = 1 /\ Cardinality(Returned(1, "put_item")) = 2

====
